---- MODULE Spec2Model ----
(***************************************************************************)
(* Model of the crawl orchestration engine of crawler/src/crawler.ts:      *)
(* the resumable run state machine, the driver loop with its per-target    *)
(* race against the overall timer, the SIGINT handler, and the request     *)
(* interception filter installed by loadAndHandlePage.                     *)
(***************************************************************************)
EXTENDS Integers, Sequences, FiniteSets, TLC

VARIABLES
  crawlTable,              \* rows of the `crawl` table; a row's id is its position
  FLAGS,                   \* globalThis.FLAGS: crawlName, resumeIfAble, url, urlList, adUrlList
  crawlOptions,            \* FLAGS.crawlOptions
  scrapeOptions,           \* FLAGS.scrapeOptions
  crawlListFile,           \* path of the list file, <<>> in single-URL mode
  crawlListLength,         \* crawlList.length
  CRAWL_ID,                \* globalThis.CRAWL_ID, 0 while unset
  crawlListStartingIndex,
  pc,                      \* position of crawl() in the running process
  i,                       \* loop variable of the main loop
  urlTimeout,              \* the timer created for the current target
  crawlTask,               \* the _crawl task of every target of this process
  raceResult,              \* how the last Promise.race settled
  sigint,                  \* "none", or "closing" while the handler awaits BROWSER.close()
  pid,                     \* number of processes started so far
  startTable,              \* history: crawlTable when the process started
  resolved,                \* history: <<run, target>> whose loop iteration finished
  lastFailed,              \* history: the <<run, target>> resolved last, if by a failure or the timer
  sigAt,                   \* history: where the driver was when SIGINT arrived
  pageUrl,                 \* page.url() of the tab the filter is installed on
  requests,                \* the buffer `requests` of loadAndHandlePage
  intercepted,             \* history: one entry per call of the request handler
  BROWSER,                 \* the tabs open in the browser
  seedPage,                \* the binding `seedPage` of every loop iteration
  pageTable,               \* rows of the `page` table, by page id
  requestTable,            \* rows of the `request` table
  visit,                   \* the calls of loadAndHandlePage of the pipeline specification
  scroll,                  \* the locals of scrollDownPage
  preflight,               \* what crawl() finds on disk and in its list before the run starts
  diagnostic,              \* the error the URL validation logged before it exited
  lookup                   \* the call of getPublicIp made by createCrawlEntry

vars == <<crawlTable, FLAGS, crawlOptions, scrapeOptions, crawlListFile,
          crawlListLength, CRAWL_ID, crawlListStartingIndex, pc, i, urlTimeout,
          crawlTask, raceResult, sigint, pid, startTable, resolved, lastFailed,
          sigAt, pageUrl, requests, intercepted, BROWSER, seedPage, pageTable,
          requestTable, visit, scroll, preflight,
                 diagnostic, lookup>>

driverVars == <<crawlTable, FLAGS, crawlOptions, crawlListFile,
                crawlListLength, CRAWL_ID, crawlListStartingIndex, pc, i,
                urlTimeout, crawlTask, raceResult, sigint, pid, startTable,
                resolved, lastFailed, sigAt, BROWSER, seedPage>>

filterVars == <<pageUrl, requests, intercepted>>

\* the state of loadAndHandlePage and scrollDownPage and the tables they write
visitVars_NoScroll == <<pageTable, requestTable, visit>>
visitVars == <<pageTable, requestTable, visit, scroll>>

----------------------------------------------------------------------------
(* Bounds *)

MaxLen == 2        \* longest target list
MaxProcs == 2      \* processes started one after the other
MaxAds == 3        \* largest findAndCrawlPageWithAds
MaxReqs == 2       \* requests intercepted on one tab
MaxHeight == 3     \* largest viewport height and scroll position of a page

----------------------------------------------------------------------------
(* Inputs *)

NoName == "<none>"
RunNames == {"R"}

\* A path or URL is the sequence of its '/'-separated segments.
SeedUrl == <<"https:", "", "a.example">>
UrlListFiles == {<<"lists", "sites.txt">>}
AdUrlListFiles == {<<"ads", "sites.txt">>}

\* path.basename
basename(p) == IF Len(p) = 0 THEN "" ELSE p[Len(p)]

\* The three input modes of crawl() and the list each one produces.
Inputs ==
  {[url |-> SeedUrl, urlList |-> <<>>, adUrlList |-> <<>>, len |-> 1]}
  \cup {[url |-> <<>>, urlList |-> f, adUrlList |-> <<>>, len |-> n] :
          f \in UrlListFiles, n \in 0..MaxLen}
  \cup {[url |-> <<>>, urlList |-> <<>>, adUrlList |-> f, len |-> n] :
          f \in AdUrlListFiles, n \in 1..MaxLen}

\* The command lines a process is started with: an unnamed crawl of a single
\* URL; crawls named R without resumeIfAble, of a single URL or of a URL list;
\* crawls named R with resumeIfAble, of every input.
Invocations ==
  {[name |-> NoName, resume |-> FALSE, in |-> in] :
     in \in {x \in Inputs : x.url # <<>>}}
  \cup {[name |-> n, resume |-> FALSE, in |-> in] :
          n \in RunNames,
          in \in {x \in Inputs : x.url # <<>> \/ (x.urlList # <<>> /\ x.len = MaxLen)}}
  \cup {[name |-> n, resume |-> TRUE, in |-> in] : n \in RunNames, in \in Inputs}

CrawlOptionSets ==
  [refreshPage : BOOLEAN, findAndCrawlArticlePage : BOOLEAN,
   findAndCrawlPageWithAds : 0..MaxAds]

\* the options of a crawl of the seed pages only
SeedOnly ==
  [refreshPage |-> FALSE, findAndCrawlArticlePage |-> FALSE,
   findAndCrawlPageWithAds |-> 0]

----------------------------------------------------------------------------
(* Run state machine *)

\* crawlListFile as assigned by the input-mode chain
ListFileOf(in) ==
  IF in.url # <<>> THEN <<>>
  ELSE IF in.urlList # <<>> THEN in.urlList
  ELSE in.adUrlList

\* the row createCrawlEntry inserts
createCrawlEntry ==
  [name |-> FLAGS.crawlName,
   completed |-> FALSE,
   crawl_list |-> IF crawlListFile # <<>> THEN crawlListFile ELSE FLAGS.url,
   crawl_list_current_index |-> 0,
   crawl_list_length |-> crawlListLength,
   crawler_ip |-> lookup.result]

\* SELECT * FROM crawl WHERE name=$1
prevCrawl == {r \in 1..Len(crawlTable) : crawlTable[r].name = FLAGS.crawlName}

\* the three checks made on the previous crawl before it is resumed
ResumeCheck(row) ==
  IF basename(row.crawl_list) # basename(crawlListFile) THEN "exit"
  ELSE IF row.crawl_list_length # crawlListLength THEN "exit"
  ELSE IF row.completed THEN "exit"
  ELSE "resume"

\* a resume that forgets the stored index
ResumeIndex_Restart(row) == 0

\* the index a resumed crawl starts from
ResumeIndex(row) == row.crawl_list_current_index

NoSignal == [processing |-> FALSE, index |-> 0]

\* no page id, no tab
NoPage == <<>>

\* page.url() of a tab that has not navigated
BlankUrl == "about:blank"

\* _crawl of a target that has not started: where it is (phase, step, the loop
\* variable of the ads loop, the reload counter of the subpage visit), its
\* local pageId, seedPage.url(), and as history the discovery calls it made
\* and how it ended
NoTask ==
  [phase |-> "none", ads |-> 0, step |-> "archive", reload |-> 0,
   pageId |-> NoPage, seedUrl |-> BlankUrl,
   articleCalls |-> 0, calls |-> 0, missed |-> FALSE, how |-> "none"]

\* _crawl of a target whose loop iteration is over, or which ended after the
\* loop had left it: its history is not kept
Forgotten == [NoTask EXCEPT !.phase = "ended"]

ResetTasks == [t \in 0..(MaxLen - 1) |-> NoTask]

\* no loop iteration has declared its seedPage
NoSeedPages == [t \in 0..(MaxLen - 1) |-> NoPage]

\* crawl() is over (returned, rejected, or the process exited): its locals,
\* its timer and its tasks are gone.
Ends(state) ==
  /\ pc' = state
  /\ i' = 0
  /\ urlTimeout' = "none"
  /\ crawlTask' = ResetTasks
  /\ raceResult' = "none"
  /\ BROWSER' = {}
  /\ seedPage' = NoSeedPages

\* A new process, the n-th at most: flags are read and the crawl list is loaded.
StartProcess(n) ==
  /\ pc \in {"idle", "done", "exit1", "sigexit", "thrown"}
  /\ pid < n
  /\ \E c \in Invocations :
       /\ FLAGS' = [crawlName |-> c.name, resumeIfAble |-> c.resume,
                    url |-> c.in.url, urlList |-> c.in.urlList,
                    adUrlList |-> c.in.adUrlList]
       /\ crawlListFile' = ListFileOf(c.in)
       /\ crawlListLength' = c.in.len
  /\ pid' = pid + 1
  /\ startTable' = crawlTable
  /\ CRAWL_ID' = 0
  /\ crawlListStartingIndex' = 0
  /\ i' = 0
  /\ urlTimeout' = "none"
  /\ crawlTask' = ResetTasks
  /\ raceResult' = "none"
  /\ BROWSER' = {}
  /\ seedPage' = NoSeedPages
  /\ sigint' = "none"
  /\ sigAt' = NoSignal
  /\ pc' = "decide"
  /\ UNCHANGED <<crawlTable, crawlOptions, scrapeOptions, resolved, lastFailed>>
  /\ UNCHANGED <<filterVars, visitVars, preflight,
                 diagnostic, lookup>>

Fresh ==
  /\ crawlTable' = Append(crawlTable, createCrawlEntry)
  /\ CRAWL_ID' = Len(crawlTable) + 1
  /\ UNCHANGED crawlListStartingIndex
  /\ pc' = "launch"

\* Decide between a new crawl entry, resuming the previous one, and exiting.
\* rows[0] of a SELECT without ORDER BY is any of the matching rows.
Decide ==
  /\ pc = "decide"
  /\ IF FLAGS.crawlName # NoName
       THEN IF prevCrawl # {} /\ FLAGS.resumeIfAble
              THEN \E r \in prevCrawl :
                     IF ResumeCheck(crawlTable[r]) = "exit"
                       THEN /\ pc' = "exit1"
                            /\ UNCHANGED <<crawlTable, CRAWL_ID, crawlListStartingIndex>>
                       ELSE /\ CRAWL_ID' = r
                            /\ crawlListStartingIndex' = ResumeIndex(crawlTable[r])
                            /\ pc' = "launch"
                            /\ UNCHANGED crawlTable
              ELSE Fresh
       ELSE Fresh
  /\ UNCHANGED <<FLAGS, crawlOptions, scrapeOptions, crawlListFile, crawlListLength,
                 i, urlTimeout, crawlTask, raceResult, sigint, pid, startTable,
                 resolved, lastFailed, sigAt>>
  /\ UNCHANGED <<BROWSER, seedPage, filterVars, visitVars, preflight,
                 diagnostic, lookup>>

\* The browser is launched, the SIGINT handler registered, the loop entered.
Launch ==
  /\ pc = "launch"
  /\ i' = crawlListStartingIndex
  /\ pc' = "head"
  /\ UNCHANGED <<crawlTable, FLAGS, crawlOptions, scrapeOptions, crawlListFile,
                 crawlListLength, CRAWL_ID, crawlListStartingIndex, urlTimeout,
                 crawlTask, raceResult, sigint, pid, startTable, resolved, lastFailed, sigAt>>
  /\ UNCHANGED <<BROWSER, seedPage, filterVars, visitVars, preflight,
                 diagnostic, lookup>>

----------------------------------------------------------------------------
(* Driver loop *)

Alive == pc \in {"head", "newPage", "work", "finally", "complete"}

\* the timer createAsyncTimeout returns: pending until it rejects or is cleared
createAsyncTimeout == "armed"

\* a loop that stops one target early
LoopContinues_OffByOne == i + 1 < crawlListLength

\* loop condition of the main loop
LoopContinues == i < crawlListLength

\* a progress write of the index of the target just finished
ProgressIndex_Stale == i

\* the value the finally block writes to crawl_list_current_index
ProgressIndex == i + 1

SetIndex(row, n) == [row EXCEPT !.crawl_list_current_index = n]

\* the timer won the race of target t: its _crawl is still running although
\* the loop has left the target
TimedOut(t) == t < i /\ crawlTask[t].phase \notin {"none", "ended"}

\* a loop that keeps one timer for the whole list: after the timer has fired
\* for a target, no new one is created
LoopHead_SharedTimer ==
  /\ pc = "head"
  /\ IF LoopContinues
       THEN /\ urlTimeout' = IF \E t \in 0..(MaxLen - 1) : TimedOut(t)
                               THEN "fired" ELSE createAsyncTimeout
            /\ pc' = "newPage"
       ELSE /\ pc' = "complete"
            /\ UNCHANGED urlTimeout
  /\ UNCHANGED <<crawlTable, FLAGS, crawlOptions, scrapeOptions, crawlListFile,
                 crawlListLength, CRAWL_ID, crawlListStartingIndex, i, crawlTask,
                 raceResult, sigint, pid, startTable, resolved, lastFailed, sigAt>>
  /\ UNCHANGED <<BROWSER, seedPage, filterVars, visitVars, preflight,
                 diagnostic, lookup>>

\* for (let i = ...; i < crawlList.length; ...): create the timer for this
\* target and ask for its tab, or leave the loop.
LoopHead ==
  /\ pc = "head"
  /\ IF LoopContinues
       THEN /\ urlTimeout' = createAsyncTimeout
            /\ pc' = "newPage"
       ELSE /\ pc' = "complete"
            /\ UNCHANGED urlTimeout
  /\ UNCHANGED <<crawlTable, FLAGS, crawlOptions, scrapeOptions, crawlListFile,
                 crawlListLength, CRAWL_ID, crawlListStartingIndex, i, crawlTask,
                 raceResult, sigint, pid, startTable, resolved, lastFailed, sigAt>>
  /\ UNCHANGED <<BROWSER, seedPage, filterVars, visitVars, preflight,
                 diagnostic, lookup>>

\* A tab is named after its owner and its use: the seed tab of target t, the
\* seed tab opened for the reload, and the subpage tab (articlePage, adsPage),
\* of which _crawl has one at a time.
SeedTab(t) == <<t, "seed", 0>>

\* the rows of the page table without those of target t
Forget(table, t) == {row \in table : row.id[1] # t}

\* let seedPage = await BROWSER.newPage() resolves: _crawl is started and raced.
NewPageOk ==
  /\ pc = "newPage"
  /\ BROWSER' = BROWSER \cup {SeedTab(i)}
  /\ seedPage' = [seedPage EXCEPT ![i] = SeedTab(i)]
  /\ crawlTask' = [crawlTask EXCEPT ![i] = [NoTask EXCEPT !.phase = "seed"]]
  /\ pc' = "work"
  /\ UNCHANGED <<crawlTable, FLAGS, crawlOptions, scrapeOptions, crawlListFile,
                 crawlListLength, CRAWL_ID, crawlListStartingIndex, i, urlTimeout,
                 raceResult, sigint, pid, startTable, resolved, lastFailed, sigAt>>
  /\ UNCHANGED <<filterVars, visitVars, preflight,
                 diagnostic, lookup>>

\* let seedPage = await BROWSER.newPage() rejects: the statement is outside the
\* inner try, so the outer catch rethrows and crawl() rejects.
NewPageThrows ==
  /\ pc = "newPage"
  /\ Ends("thrown")
  /\ UNCHANGED <<crawlTable, FLAGS, crawlOptions, scrapeOptions, crawlListFile,
                 crawlListLength, CRAWL_ID, crawlListStartingIndex, sigint, pid,
                 startTable, resolved, lastFailed, sigAt>>
  /\ UNCHANGED <<filterVars, visitVars, preflight,
                 diagnostic, lookup>>

\* phases of _crawl, in the order of its statements
AfterArticle ==
  IF crawlOptions.findAndCrawlPageWithAds > 0 THEN "ads" ELSE "ended"

AfterReload ==
  IF crawlOptions.findAndCrawlArticlePage THEN "article" ELSE AfterArticle

AfterSeed == IF crawlOptions.refreshPage THEN "reload" ELSE AfterReload

\* the task after its current phase succeeded; found: the discovery call of
\* the ads loop returned a candidate
TaskAfter(task, found) ==
  CASE task.phase = "seed" -> [task EXCEPT !.phase = AfterSeed]
    [] task.phase = "reload" -> [task EXCEPT !.phase = AfterReload]
    [] task.phase = "article" -> [task EXCEPT !.phase = AfterArticle]
    [] task.phase = "ads" ->
         IF found /\ task.ads + 1 < crawlOptions.findAndCrawlPageWithAds
           THEN [task EXCEPT !.ads = task.ads + 1]
           ELSE [task EXCEPT !.phase = "ended",
                             !.ads = IF found THEN task.ads + 1 ELSE task.ads]

\* _crawl of target t has run its finally (clearTimeout); when the driver is
\* still awaiting the race of this target, the race resolves.
TaskEnds(t, how) ==
  IF pc = "work" /\ t = i
    THEN /\ urlTimeout' = "cleared"
         /\ raceResult' = how
         /\ pc' = "finally"
    ELSE UNCHANGED <<urlTimeout, raceResult, pc>>

\* One phase of _crawl of target t succeeds.
TaskStep(t) ==
  /\ Alive
  /\ crawlTask[t].phase \notin {"none", "ended"}
  /\ \E found \in BOOLEAN :
       LET task == TaskAfter(crawlTask[t], found) IN
         /\ crawlTask' = [crawlTask EXCEPT ![t] = task]
         /\ IF task.phase = "ended"
              THEN TaskEnds(t, "ok")
              ELSE UNCHANGED <<urlTimeout, raceResult, pc>>
  /\ UNCHANGED <<crawlTable, FLAGS, crawlOptions, scrapeOptions, crawlListFile,
                 crawlListLength, CRAWL_ID, crawlListStartingIndex, i, sigint,
                 pid, startTable, resolved, lastFailed, sigAt>>
  /\ UNCHANGED <<BROWSER, seedPage, filterVars, visitVars, preflight,
                 diagnostic, lookup>>

\* A phase of _crawl of target t throws: caught by the catch of _crawl.
TaskThrows(t) ==
  /\ Alive
  /\ crawlTask[t].phase \notin {"none", "ended"}
  /\ crawlTask' = [crawlTask EXCEPT ![t].phase = "ended"]
  /\ TaskEnds(t, "failed")
  /\ UNCHANGED <<crawlTable, FLAGS, crawlOptions, scrapeOptions, crawlListFile,
                 crawlListLength, CRAWL_ID, crawlListStartingIndex, i, sigint,
                 pid, startTable, resolved, lastFailed, sigAt>>
  /\ UNCHANGED <<BROWSER, seedPage, filterVars, visitVars, preflight,
                 diagnostic, lookup>>

\* urlTimeout rejects first: the catch after the race logs it; _crawl of this
\* target is abandoned, not stopped.
TimerFires ==
  /\ pc = "work"
  /\ urlTimeout = "armed"
  /\ urlTimeout' = "fired"
  /\ raceResult' = "timeout"
  /\ pc' = "finally"
  /\ UNCHANGED <<crawlTable, FLAGS, crawlOptions, scrapeOptions, crawlListFile,
                 crawlListLength, CRAWL_ID, crawlListStartingIndex, i, crawlTask,
                 sigint, pid, startTable, resolved, lastFailed, sigAt>>
  /\ UNCHANGED <<BROWSER, seedPage, filterVars, visitVars, preflight,
                 diagnostic, lookup>>

\* finally: UPDATE crawl SET crawl_list_current_index, seedPage.close(), i++.
\* The close is not awaited; the tab counts as closed from the request on.
\* The history of a _crawl that has ended is not kept past its iteration.
FinallyUpdate ==
  /\ pc = "finally"
  /\ crawlTable' = [crawlTable EXCEPT ![CRAWL_ID] = SetIndex(@, ProgressIndex)]
  /\ BROWSER' = BROWSER \ {seedPage[i]}
  /\ resolved' = resolved \cup {<<CRAWL_ID, i>>}
  /\ lastFailed' = IF raceResult = "ok" THEN <<>> ELSE <<CRAWL_ID, i>>
  /\ i' = i + 1
  /\ urlTimeout' = "none"
  /\ raceResult' = "none"
  /\ pc' = "head"
  /\ IF crawlTask[i].phase = "ended"
       THEN /\ crawlTask' = [crawlTask EXCEPT ![i] = Forgotten]
            /\ pageTable' = Forget(pageTable, i)
       ELSE UNCHANGED <<crawlTask, pageTable>>
  /\ UNCHANGED <<FLAGS, crawlOptions, scrapeOptions, crawlListFile,
                 crawlListLength, CRAWL_ID, crawlListStartingIndex,
                 sigint, pid, startTable, sigAt>>
  /\ UNCHANGED <<seedPage, filterVars, requestTable, visit, scroll, preflight,
                 diagnostic, lookup>>

\* UPDATE crawl SET completed=TRUE after the loop; crawl() returns.
Complete ==
  /\ pc = "complete"
  /\ crawlTable' = [crawlTable EXCEPT ![CRAWL_ID].completed = TRUE]
  /\ Ends("done")
  /\ UNCHANGED <<FLAGS, crawlOptions, scrapeOptions, crawlListFile,
                 crawlListLength, CRAWL_ID, crawlListStartingIndex, sigint, pid,
                 startTable, resolved, lastFailed, sigAt>>
  /\ UNCHANGED <<filterVars, visitVars, preflight,
                 diagnostic, lookup>>

\* SIGINT is delivered: the handler starts and awaits BROWSER.close(); the
\* driver keeps running until the handler resumes.
SigintArrives ==
  /\ Alive
  /\ sigint = "none"
  /\ sigint' = "closing"
  /\ sigAt' = IF pc \in {"newPage", "work", "finally"}
                 THEN [processing |-> TRUE,
                       index |-> crawlTable[CRAWL_ID].crawl_list_current_index]
                 ELSE NoSignal
  /\ UNCHANGED <<crawlTable, FLAGS, crawlOptions, scrapeOptions, crawlListFile,
                 crawlListLength, CRAWL_ID, crawlListStartingIndex, pc, i,
                 urlTimeout, crawlTask, raceResult, pid, startTable, resolved, lastFailed>>
  /\ UNCHANGED <<BROWSER, seedPage, filterVars, visitVars, preflight,
                 diagnostic, lookup>>

\* BROWSER.close() has resolved: process.exit()
SigintExit ==
  /\ Alive
  /\ sigint = "closing"
  /\ Ends("sigexit")
  /\ UNCHANGED <<crawlTable, FLAGS, crawlOptions, scrapeOptions, crawlListFile,
                 crawlListLength, CRAWL_ID, crawlListStartingIndex, sigint, pid,
                 startTable, resolved, lastFailed, sigAt>>
  /\ UNCHANGED <<filterVars, visitVars, preflight,
                 diagnostic, lookup>>

----------------------------------------------------------------------------
(* The body of _crawl, one await at a time *)

Targets == 0..(MaxLen - 1)

\* a column that was not written
Null == "<null>"

\* page.url() after page.goto: the URL asked for, or the one it redirected to
ResolvedUrls == {"requested", "redirected"}

Subpage(task) == task.phase \in {"article", "ads"}

\* the tab the current statement of _crawl opens: the seed tab of the reload,
\* or the subpage tab
TabName(t, task) ==
  IF task.phase = "reload" THEN <<t, "seed", 1>> ELSE <<t, "subpage", 0>>

\* the tab the current statement of _crawl works on
TabOf(t, task) == IF Subpage(task) THEN TabName(t, task) ELSE seedPage[t]

\* the page id archivePage returns to the call of loadAndHandlePage at the
\* current position: every call gets an id of its own
PageId(t, task) ==
  IF task.phase = "reload" THEN <<t, "seed", 0, 1>>
  ELSE <<t, task.phase, task.ads, task.reload>>

\* the page id of the seed visit of target t with reload counter r
SeedPageId(t, r) == <<t, "seed", 0, r>>

\* a subpage visit whose referrer is the first seed visit even after a reload
LoadPageMetadata_FirstVisit(t, task) ==
  [pageType |-> IF Subpage(task) THEN "SUBPAGE" ELSE "MAIN",
   referrerPageId |-> IF Subpage(task) THEN SeedPageId(t, 0) ELSE NoPage,
   referrerPageUrl |-> IF Subpage(task) THEN task.seedUrl ELSE Null,
   reload |-> IF task.phase = "reload" THEN 1 ELSE task.reload]

\* the metadata argument of loadAndHandlePage at the current position
LoadPageMetadata(t, task) ==
  [pageType |-> IF Subpage(task) THEN "SUBPAGE" ELSE "MAIN",
   referrerPageId |-> IF Subpage(task) THEN task.pageId ELSE NoPage,
   referrerPageUrl |-> IF Subpage(task) THEN task.seedUrl ELSE Null,
   reload |-> IF task.phase = "reload" THEN 1 ELSE task.reload]

\* the row db.archivePage inserts
archivePage(id, metadata) ==
  [id |-> id,
   page_type |-> metadata.pageType,
   referrer_page |-> metadata.referrerPageId,
   referrer_page_url |-> metadata.referrerPageUrl,
   reload |-> metadata.reload,
   error |-> Null]

\* db.updatePage(id, {error})
SetError(table, id, e) ==
  {IF row.id = id THEN [row EXCEPT !.error = e] ELSE row : row \in table}

\* _crawl is over: its locals are gone, the history fields stay
Ended(task, how) ==
  [task EXCEPT !.phase = "ended", !.how = how, !.ads = 0, !.step = "archive",
               !.reload = 0, !.pageId = NoPage, !.seedUrl = BlankUrl]

\* the task at the first statement of a phase
Enter(task, phase) ==
  CASE phase = "reload" -> [task EXCEPT !.phase = "reload", !.step = "close"]
    [] phase \in {"article", "ads"} ->
         [task EXCEPT !.phase = phase, !.step = "find", !.ads = 0, !.reload = 0]
    [] phase = "ended" -> Ended(task, "ok")

\* an ads loop that goes on to its next iteration after a miss
AfterMiss_NoBreak(task) ==
  IF task.ads + 1 < crawlOptions.findAndCrawlPageWithAds
    THEN [task EXCEPT !.ads = task.ads + 1, !.missed = TRUE]
    ELSE Ended([task EXCEPT !.missed = TRUE], "ok")

\* findHealthRelatedPagesWithAds returned nothing: log, break
AfterMiss(task) == Ended([task EXCEPT !.missed = TRUE], "ok")

\* the task after `await page.close()` of the tab it works on
AfterClose(task) ==
  IF task.phase = "reload"
    THEN [task EXCEPT !.step = "newPage"]
  ELSE IF crawlOptions.refreshPage /\ task.reload = 0
    THEN [task EXCEPT !.reload = 1, !.step = "newPage"]
  ELSE IF task.phase = "article"
    THEN Enter(task, AfterArticle)
  ELSE IF task.ads + 1 < crawlOptions.findAndCrawlPageWithAds
    THEN [task EXCEPT !.ads = task.ads + 1, !.step = "find", !.reload = 0]
  ELSE Enter(task, "ended")

\* the driver awaits the race of target t
Raced(t) == pc = "work" /\ t = i

\* _crawl of target t goes on as `task` with the page table `table`. When
\* that is its end, its finally has run: the race settles if the driver still
\* awaits it; if the loop has left the target, nothing of it is kept.
Moves(t, task, table) ==
  IF task.phase = "ended" /\ ~Raced(t)
    THEN /\ crawlTask' = [crawlTask EXCEPT ![t] = Forgotten]
         /\ pageTable' = Forget(table, t)
         /\ UNCHANGED <<urlTimeout, raceResult, pc>>
    ELSE /\ crawlTask' = [crawlTask EXCEPT ![t] = task]
         /\ pageTable' = table
         /\ IF task.phase = "ended"
              THEN TaskEnds(t, task.how)
              ELSE UNCHANGED <<urlTimeout, raceResult, pc>>

\* _crawl of target t is at statement `step`
At(t, step) ==
  /\ Alive
  /\ crawlTask[t].phase \notin {"none", "ended"}
  /\ crawlTask[t].step = step

\* what no statement of _crawl changes
CrawlRest ==
  UNCHANGED <<crawlTable, FLAGS, crawlOptions, scrapeOptions, crawlListFile,
              crawlListLength, CRAWL_ID, crawlListStartingIndex, i, sigint,
              pid, startTable, resolved, lastFailed, sigAt, filterVars,
              requestTable, visit, scroll, preflight,
                 diagnostic, lookup>>

\* loadAndHandlePage starts: db.archivePage inserts the Page Visit row
ArchivePage(t) ==
  /\ At(t, "archive")
  /\ LET task == crawlTask[t] IN
       Moves(t, [task EXCEPT !.step = "load"],
             pageTable \cup {archivePage(PageId(t, task), LoadPageMetadata(t, task))})
  /\ UNCHANGED <<BROWSER, seedPage>>
  /\ CrawlRest

\* the URLs a visit at the current position can resolve to; crawl() reads the
\* resolved URL of the seed tab only
ResolvedUrlsOf(task) == IF Subpage(task) THEN {"requested"} ELSE ResolvedUrls

\* loadAndHandlePage returns the page id: the tab was open throughout and is
\* now at the resolved URL
PageLoads(t) ==
  /\ At(t, "load")
  /\ LET task == crawlTask[t]
         id == PageId(t, task)
     IN /\ TabOf(t, task) \in BROWSER
        /\ \E u \in ResolvedUrlsOf(task) :
             Moves(t,
                   CASE task.phase = "seed" ->
                          Enter([task EXCEPT !.pageId = id, !.seedUrl = u], AfterSeed)
                     [] task.phase = "reload" ->
                          Enter([task EXCEPT !.pageId = id, !.seedUrl = u], AfterReload)
                     [] OTHER -> [task EXCEPT !.step = "close"],
                   pageTable)
  /\ UNCHANGED <<BROWSER, seedPage>>
  /\ CrawlRest

\* loadAndHandlePage throws: its catch has written the error to the row; the
\* catch of _crawl logs it. Nothing closes the tab the visit was made on.
PageLoadFails(t) ==
  /\ At(t, "load")
  /\ LET task == crawlTask[t] IN
       Moves(t, Ended(task, "failed"),
             SetError(pageTable, PageId(t, task), "error"))
  /\ UNCHANGED <<BROWSER, seedPage>>
  /\ CrawlRest

\* await seedPage.close() before the reload, await articlePage.close(),
\* await adsPage.close(); closing a tab that is closed already throws
ClosePage(t) ==
  /\ At(t, "close")
  /\ LET task == crawlTask[t]
         tab == TabOf(t, task)
     IN IF tab \in BROWSER
          THEN /\ BROWSER' = BROWSER \ {tab}
               /\ Moves(t, AfterClose(task), pageTable)
          ELSE /\ Moves(t, Ended(task, "failed"), pageTable)
               /\ UNCHANGED BROWSER
  /\ UNCHANGED seedPage
  /\ CrawlRest

\* await BROWSER.newPage() for the reload of the seed page or for a subpage
OpenPage(t) ==
  /\ At(t, "newPage")
  /\ LET task == crawlTask[t]
         tab == TabName(t, task)
     IN \E opens \in BOOLEAN :
          IF opens
            THEN /\ BROWSER' = BROWSER \cup {tab}
                 /\ IF task.phase = "reload"
                      THEN /\ seedPage' = [seedPage EXCEPT ![t] = tab]
                           /\ Moves(t, [task EXCEPT !.step = "archive",
                                                    !.seedUrl = BlankUrl],
                                    pageTable)
                      ELSE /\ Moves(t, [task EXCEPT !.step = "archive"], pageTable)
                           /\ UNCHANGED seedPage
            ELSE /\ Moves(t, Ended(task, "failed"), pageTable)
                 /\ UNCHANGED <<BROWSER, seedPage>>
  /\ CrawlRest

\* await subpageExplorer.findArticle(seedPage) or
\* findHealthRelatedPagesWithAds(seedPage); on a closed seed tab it throws
FindSubpage(t) ==
  /\ At(t, "find")
  /\ LET task == crawlTask[t] IN
       IF seedPage[t] \notin BROWSER
         THEN Moves(t, Ended(task, "failed"), pageTable)
       ELSE \E found \in BOOLEAN :
         IF task.phase = "article"
           THEN LET called == [task EXCEPT !.articleCalls = task.articleCalls + 1] IN
                  Moves(t, IF found THEN [called EXCEPT !.step = "newPage"]
                           ELSE Enter(called, AfterArticle),
                        pageTable)
           ELSE LET called == [task EXCEPT !.calls = task.calls + 1] IN
                  Moves(t, IF found THEN [called EXCEPT !.step = "newPage"]
                           ELSE AfterMiss(called),
                        pageTable)
  /\ UNCHANGED <<BROWSER, seedPage>>
  /\ CrawlRest

----------------------------------------------------------------------------
(* Request interception filter of loadAndHandlePage *)

\* A URL is its scheme, host and path; InvalidUrl is a string new URL() rejects.
AboutBlank == [scheme |-> "about", host |-> "", path |-> "blank"]
PageA == [scheme |-> "https", host |-> "a.example", path |-> "/"]
ScriptA == [scheme |-> "https", host |-> "a.example", path |-> "/x.js"]
ScriptCdn == [scheme |-> "https", host |-> "cdn.example", path |-> "/y.js"]
InvalidUrl == [scheme |-> "", host |-> "", path |-> "%"]

RequestUrls == {PageA, ScriptA, ScriptCdn, InvalidUrl}
PageUrls == {AboutBlank, PageA}
MainFrame == "main"

\* the requests a tab can be asked to classify
Requests ==
  [url : RequestUrls, isNavigationRequest : BOOLEAN, frame : {MainFrame, "child"}]

resourceType(request) ==
  IF request.isNavigationRequest THEN "document" ELSE "script"

\* new URL(u) throws for this string
Throws(u) == u.scheme = ""

\* new URL(u).origin: scheme and host, or "null" for an opaque origin
origin(u) ==
  IF u.scheme \in {"http", "https"} THEN <<u.scheme, u.host>> ELSE <<"null">>

\* the record pushed to `requests`
WebRequest(request, page) ==
  [parent_page |-> -1,
   initiator |-> page,
   target_url |-> request.url,
   resource_type |-> resourceType(request)]

\* a handler without the same-origin exclusion
captureThirdPartyRequests_NoOriginCheck(request, page, capture) ==
  IF ~capture
    THEN [push |-> <<>>, continues |-> 1, warned |-> FALSE]
  ELSE IF request.isNavigationRequest /\ request.frame = MainFrame
    THEN [push |-> <<>>, continues |-> 1, warned |-> FALSE]
  ELSE IF Throws(request.url) \/ Throws(page)
    THEN [push |-> <<>>, continues |-> 1, warned |-> TRUE]
  ELSE [push |-> <<WebRequest(request, page)>>, continues |-> 1, warned |-> FALSE]

\* a handler whose catch block does not let the request proceed
captureThirdPartyRequests_CatchBlocks(request, page, capture) ==
  IF ~capture
    THEN [push |-> <<>>, continues |-> 1, warned |-> FALSE]
  ELSE IF request.isNavigationRequest /\ request.frame = MainFrame
    THEN [push |-> <<>>, continues |-> 1, warned |-> FALSE]
  ELSE IF Throws(request.url) \/ Throws(page)
    THEN [push |-> <<>>, continues |-> 0, warned |-> TRUE]
  ELSE IF origin(request.url) = origin(page)
    THEN [push |-> <<>>, continues |-> 1, warned |-> FALSE]
  ELSE [push |-> <<WebRequest(request, page)>>, continues |-> 1, warned |-> FALSE]

\* The handler: what it pushes, how often it calls request.continue and
\* whether its catch block logged a warning, for a request on a tab at `page`.
captureThirdPartyRequests(request, page, capture) ==
  IF ~capture
    THEN [push |-> <<>>, continues |-> 1, warned |-> FALSE]
  ELSE IF request.isNavigationRequest /\ request.frame = MainFrame
    THEN [push |-> <<>>, continues |-> 1, warned |-> FALSE]
  ELSE IF Throws(request.url) \/ Throws(page)
    THEN [push |-> <<>>, continues |-> 1, warned |-> TRUE]
  ELSE IF origin(request.url) = origin(page)
    THEN [push |-> <<>>, continues |-> 1, warned |-> FALSE]
  ELSE [push |-> <<WebRequest(request, page)>>, continues |-> 1, warned |-> FALSE]

\* The tab issues a request and the handler runs on it.
Intercept ==
  /\ Len(intercepted) < MaxReqs
  /\ \E request \in Requests :
       LET res == captureThirdPartyRequests(request, pageUrl,
                    scrapeOptions.captureThirdPartyRequests)
       IN /\ requests' = requests \o res.push
          /\ intercepted' = Append(intercepted,
               [request |-> request, page |-> pageUrl,
                continues |-> res.continues, warned |-> res.warned,
                pushed |-> Len(res.push)])
  /\ UNCHANGED <<pageUrl, scrapeOptions>>
  /\ UNCHANGED <<driverVars, visitVars, preflight,
                 diagnostic, lookup>>

\* page.goto commits a navigation: page.url() changes.
PageNavigates ==
  /\ \E u \in PageUrls \ {pageUrl} : pageUrl' = u
  /\ UNCHANGED <<requests, intercepted, scrapeOptions>>
  /\ UNCHANGED <<driverVars, visitVars, preflight,
                 diagnostic, lookup>>

----------------------------------------------------------------------------
(* loadAndHandlePage, one await at a time *)

\* the tabs loadAndHandlePage is called on, one call each: the calls can
\* overlap when the first belongs to a _crawl the timer has abandoned
Visits == {"tabA", "tabB"}

\* the statements of the try block, in order
PipelineSteps ==
  <<"setRequestInterception", "goto", "removeCookieBanners", "press",
    "scrollDownPage", "scrapePage", "scrapeAdsOnPage", "flush">>

StepNames == {PipelineSteps[k] : k \in 1..Len(PipelineSteps)}

\* the statement after `step`
NextStep(step) ==
  LET k == CHOOSE n \in 1..Len(PipelineSteps) : PipelineSteps[n] = step
  IN PipelineSteps[k + 1]

\* no exception
NoFailure == [message |-> Null]

\* a call of loadAndHandlePage that has not started: its position, its local
\* pageId, page.url() of its tab, its buffer `requests` and how far the flush
\* loop has got, the exception its catch block holds, and what it returned or
\* threw to its caller (0: no page id)
NoVisit ==
  [pc |-> "idle", pageId |-> 0, url |-> AboutBlank, requests |-> <<>>,
   flushed |-> 0, failure |-> NoFailure, result |-> 0, raised |-> NoFailure]

NoVisits == [c \in Visits |-> NoVisit]

\* the metadata of a visit of a seed page
SeedMetadata ==
  [pageType |-> "MAIN", referrerPageId |-> NoPage, referrerPageUrl |-> Null,
   reload |-> 0]

\* the requests a tab issues while the pipeline runs on it
PipelineRequests ==
  {[url |-> u, isNavigationRequest |-> FALSE, frame |-> MainFrame] :
     u \in {ScriptA, ScriptCdn}}
  \cup {[url |-> PageA, isNavigationRequest |-> TRUE, frame |-> MainFrame]}

\* what no statement of loadAndHandlePage changes
VisitRest == UNCHANGED <<driverVars, scrapeOptions, filterVars, scroll, preflight,
                 diagnostic, lookup>>

\* db.archivePage inserts the Page Visit row and returns its id, before the try
VisitStarts(c) ==
  /\ visit[c].pc = "idle"
  /\ LET id == Cardinality(pageTable) + 1 IN
       /\ pageTable' = pageTable \cup {archivePage(id, SeedMetadata)}
       /\ visit' = [visit EXCEPT ![c].pc = PipelineSteps[1], ![c].pageId = id]
  /\ UNCHANGED requestTable
  /\ VisitRest

\* a statement of the try block before the flush succeeds; page.goto leaves
\* the tab at the page
StepSucceeds(c) ==
  /\ visit[c].pc \in StepNames \ {"flush"}
  /\ visit' = [visit EXCEPT ![c].pc = NextStep(visit[c].pc),
                            ![c].url = IF visit[c].pc = "goto" THEN PageA
                                       ELSE visit[c].url]
  /\ UNCHANGED <<pageTable, requestTable>>
  /\ VisitRest

\* a statement of the try block throws: control goes to the catch block
StepThrows(c) ==
  /\ visit[c].pc \in StepNames
  /\ visit' = [visit EXCEPT ![c].pc = "catch",
                            ![c].failure = [message |-> visit[c].pc]]
  /\ UNCHANGED <<pageTable, requestTable>>
  /\ VisitRest

\* the page loaded on the tab of call c issues a request: the handler of that
\* call pushes to the buffer of its own call
Observes(c) ==
  /\ visit[c].pc \in StepNames
  /\ visit[c].url = PageA
  /\ Len(visit[c].requests) < MaxReqs
  /\ \E request \in PipelineRequests :
       LET res == captureThirdPartyRequests(request, visit[c].url,
                    scrapeOptions.captureThirdPartyRequests)
           \* history: the call on whose tab the request was observed, and
           \* its place in the buffer
           tagged == [k \in 1..Len(res.push) |->
                        [request |-> res.push[k], tab |-> c,
                         at |-> Len(visit[c].requests) + k]]
       IN visit' = [visit EXCEPT ![c].requests = visit[c].requests \o tagged]
  /\ UNCHANGED <<pageTable, requestTable>>
  /\ VisitRest

\* a flush that archives the buffered record as it is
Stamp_Placeholder(request, pageId) == request

\* request.parent_page = pageId
Stamp(request, pageId) == [request EXCEPT !.parent_page = pageId]

\* if (captureThirdPartyRequests) for (request of requests): one
\* db.archiveRequest, or the end of the loop and `return pageId`
Flushes(c) ==
  /\ visit[c].pc = "flush"
  /\ LET v == visit[c] IN
       IF scrapeOptions.captureThirdPartyRequests /\ v.flushed < Len(v.requests)
         THEN LET k == v.flushed + 1
                  stamped == [v.requests[k] EXCEPT
                                !.request = Stamp(v.requests[k].request, v.pageId)]
              IN /\ requestTable' = requestTable \cup {stamped}
                 /\ visit' = [visit EXCEPT ![c].requests[k] = stamped,
                                           ![c].flushed = k]
         ELSE /\ visit' = [visit EXCEPT ![c].pc = "returned", ![c].result = v.pageId,
                                        ![c].requests = <<>>, ![c].flushed = 0]
              /\ UNCHANGED requestTable
  /\ UNCHANGED pageTable
  /\ VisitRest

\* a catch block that swallows the exception and returns the page id
CatchExit_Swallows(v) ==
  [v EXCEPT !.pc = "returned", !.result = v.pageId, !.requests = <<>>,
            !.flushed = 0]

\* throw e; the buffer goes with the call
CatchExit(v) ==
  [v EXCEPT !.pc = "thrown", !.raised = v.failure, !.requests = <<>>,
            !.flushed = 0]

\* catch (e): db.updatePage(pageId, {error: e.message}); throw e
Catches(c) ==
  /\ visit[c].pc = "catch"
  /\ pageTable' = SetError(pageTable, visit[c].pageId, visit[c].failure.message)
  /\ visit' = [visit EXCEPT ![c] = CatchExit(visit[c])]
  /\ UNCHANGED requestTable
  /\ VisitRest

----------------------------------------------------------------------------
(* Pre-flight checks of crawl() *)

\* the lists a list file can hold, well-formed URLs and strings new URL rejects
UrlLists == UNION {[1..n -> {PageA, InvalidUrl}] : n \in 0..MaxLen}

\* the input flags and the URLs they lead to: --url with one URL, a list file
\* of either kind with its content, or no input flag
PreflightInputs ==
  {[url |-> <<u.host, u.path>>, urlList |-> <<>>, adUrlList |-> <<>>,
    urls |-> <<u>>] : u \in {PageA, InvalidUrl}}
  \cup {[url |-> <<>>, urlList |-> f, adUrlList |-> <<>>, urls |-> l] :
          f \in UrlListFiles, l \in UrlLists}
  \cup {[url |-> <<>>, urlList |-> <<>>, adUrlList |-> f, urls |-> l] :
          f \in AdUrlListFiles, l \in UrlLists}
  \cup {[url |-> <<>>, urlList |-> <<>>, adUrlList |-> <<>>, urls |-> <<>>]}

\* flags.outputDir on disk, whether the list file exists, and the URLs of
\* the input
NoPreflight == [outputDir |-> "writable", listFile |-> "present", urls |-> <<>>]

\* nothing logged by the URL validation
NoDiagnostic == [file |-> <<>>, line |-> 0, url |-> AboutBlank]

\* what no pre-flight check changes
PreflightRest ==
  UNCHANGED <<crawlTable, crawlOptions, scrapeOptions, CRAWL_ID,
              crawlListStartingIndex, i, urlTimeout, crawlTask, raceResult,
              sigint, startTable, resolved, lastFailed, sigAt, BROWSER,
              seedPage, filterVars, visitVars, lookup>>

\* crawl(flags, pgConf) is called in a new process: setupGlobals
StartCrawl ==
  /\ pc = "idle"
  /\ \E in \in PreflightInputs,
        dir \in {"missing", "unwritable", "writable"},
        file \in {"missing", "present"} :
       /\ FLAGS' = [crawlName |-> NoName, resumeIfAble |-> FALSE, url |-> in.url,
                    urlList |-> in.urlList, adUrlList |-> in.adUrlList]
       /\ preflight' = [outputDir |-> dir, listFile |-> file, urls |-> in.urls]
  /\ pid' = pid + 1
  /\ pc' = "checkOutputDir"
  /\ UNCHANGED <<crawlListFile, crawlListLength, diagnostic>>
  /\ PreflightRest

\* fs.existsSync(outputDir) and fs.accessSync(outputDir, R_OK | W_OK), then
\* DbClient.initialize
CheckOutputDir ==
  /\ pc = "checkOutputDir"
  /\ pc' = IF preflight.outputDir = "writable" THEN "readList" ELSE "exit1"
  /\ UNCHANGED <<FLAGS, preflight, pid, crawlListFile, crawlListLength, diagnostic>>
  /\ PreflightRest

\* the input-mode chain: crawlList and crawlListFile are set, or the process
\* exits for a missing list file or for want of an input
ReadCrawlList ==
  /\ pc = "readList"
  /\ IF FLAGS.url # <<>>
       THEN /\ crawlListLength' = 1
            /\ pc' = "validate"
            /\ UNCHANGED crawlListFile
     ELSE IF FLAGS.urlList # <<>>
       THEN IF preflight.listFile = "missing"
              THEN /\ pc' = "exit1"
                   /\ UNCHANGED <<crawlListFile, crawlListLength>>
              ELSE /\ crawlListFile' = FLAGS.urlList
                   /\ crawlListLength' = Len(preflight.urls)
                   /\ pc' = "validate"
     ELSE IF FLAGS.adUrlList # <<>>
       THEN /\ crawlListFile' = FLAGS.adUrlList
            /\ IF preflight.listFile = "missing"
                 THEN /\ pc' = "exit1"
                      /\ UNCHANGED crawlListLength
                 ELSE /\ crawlListLength' = Len(preflight.urls)
                      /\ pc' = "validate"
     ELSE /\ pc' = "exit1"
          /\ UNCHANGED <<crawlListFile, crawlListLength>>
  /\ UNCHANGED <<FLAGS, preflight, pid, diagnostic>>
  /\ PreflightRest

\* a validation loop that looks at the first URL only
Valid_FirstOnly(urls) == Len(urls) = 0 \/ ~Throws(urls[1])

\* for (let url of crawlList) new URL(url) throws for none of them
Valid(urls) == \A k \in 1..Len(urls) : ~Throws(urls[k])

\* the rest of the validation loop, from the k-th URL on, with the value
\* `line` of the counter declared before the loop (let i = 1), which the loop
\* body does not change: the error logged at the first URL new URL() rejects
RECURSIVE ValidateFrom(_, _, _)
ValidateFrom(urls, k, line) ==
  IF k > Len(urls) THEN NoDiagnostic
  ELSE IF Throws(urls[k])
    THEN [file |-> crawlListFile, line |-> line, url |-> urls[k]]
  ELSE ValidateFrom(urls, k + 1, line)

\* the validation loop: log and exit at the first URL new URL() rejects
ValidateUrls ==
  /\ pc = "validate"
  /\ pc' = IF Valid(preflight.urls) THEN "decide" ELSE "exit1"
  /\ diagnostic' = IF Valid(preflight.urls) THEN diagnostic
                   ELSE ValidateFrom(preflight.urls, 1, 1)
  /\ UNCHANGED <<FLAGS, preflight, pid, crawlListFile, crawlListLength>>
  /\ PreflightRest

----------------------------------------------------------------------------
(* getPublicIp, called by createCrawlEntry *)

\* what a lookup of the public-ip package settles to: it resolves with an
\* address, it resolves with an empty value, or it rejects
Empty == ""
Rejected == "<rejected>"
Ipv4Outcomes == {"203.0.113.7", Empty, Rejected}
Ipv6Outcomes == {"2001:db8::7", Empty, Rejected}

\* if (v4), if (v6)
Truthy(v) == v \notin {Empty, Rejected}

\* the value of a function that ends without a return statement
Undefined == "<undefined>"

\* getPublicIp has not been called: its position, what the two lookups are
\* going to settle to, whether publicIpv6 was called, and the value returned
NoLookup ==
  [pc |-> "idle", v4 |-> Rejected, v6 |-> Rejected, calledIpv6 |-> FALSE,
   result |-> Null]

LookupRest ==
  UNCHANGED <<driverVars, scrapeOptions, filterVars, visitVars, preflight,
              diagnostic>>

\* createCrawlEntry evaluates `await getPublicIp()`: publicIpv4() is called
GetPublicIp ==
  /\ pc = "decide"
  /\ lookup.pc = "idle"
  /\ \E v4 \in Ipv4Outcomes, v6 \in Ipv6Outcomes :
       lookup' = [NoLookup EXCEPT !.pc = "publicIpv4", !.v4 = v4, !.v6 = v6]
  /\ LookupRest

\* await publicIpv4() settles: return v4 when it is truthy; when it is not,
\* the try block is left and the function ends; when it rejected, the catch
\* logs and calls publicIpv6()
Ipv4Settles ==
  /\ lookup.pc = "publicIpv4"
  /\ lookup' =
       IF lookup.v4 = Rejected
         THEN [lookup EXCEPT !.pc = "publicIpv6", !.calledIpv6 = TRUE]
       ELSE IF Truthy(lookup.v4)
         THEN [lookup EXCEPT !.pc = "returned", !.result = lookup.v4]
       ELSE [lookup EXCEPT !.pc = "returned", !.result = Undefined]
  /\ LookupRest

\* await publicIpv6() settles: return v6 when it is truthy; when it is not,
\* the function ends; when it rejected, the inner catch logs and returns null
Ipv6Settles ==
  /\ lookup.pc = "publicIpv6"
  /\ lookup' =
       IF lookup.v6 = Rejected
         THEN [lookup EXCEPT !.pc = "returned", !.result = Null]
       ELSE IF Truthy(lookup.v6)
         THEN [lookup EXCEPT !.pc = "returned", !.result = lookup.v6]
       ELSE [lookup EXCEPT !.pc = "returned", !.result = Undefined]
  /\ LookupRest

\* db.insert of createCrawlEntry, once getPublicIp has returned
InsertCrawlEntry ==
  /\ lookup.pc = "returned"
  /\ Decide

----------------------------------------------------------------------------
(* scrollDownPage *)

\* the iterations the while loop of scrollDownPage allows
MaxScrollIterations == 30

\* scrollDownPage is not running
NoScroll == [pc |-> "idle", innerHeight |-> 0, scrollY |-> 0, scrollHeight |-> 0,
             i |-> 0]

ScrollRest ==
  UNCHANGED <<driverVars, scrapeOptions, filterVars, visitVars_NoScroll, preflight,
                 diagnostic, lookup>>

\* the three page.evaluate reads on entry; let i = 0
ScrollStarts ==
  /\ scroll.pc = "idle"
  /\ \E h \in 1..MaxHeight, y \in 0..MaxHeight, c \in 0..(2 * MaxHeight) :
       scroll' = [pc |-> "while", innerHeight |-> h, scrollY |-> y,
                  scrollHeight |-> c, i |-> 0]
  /\ ScrollRest

\* a loop that allows one iteration more
Continue_OffByOne(s) ==
  s.scrollY + s.innerHeight < s.scrollHeight /\ s.i <= MaxScrollIterations

\* scrollY + innerHeight < scrollHeight && i < 30
Continue(s) ==
  s.scrollY + s.innerHeight < s.scrollHeight /\ s.i < MaxScrollIterations

\* one iteration: move, wheel, sleep, then scrollY is read again, wherever
\* the page is now; innerHeight and scrollHeight keep the values read on entry
ScrollIterates ==
  /\ scroll.pc = "while"
  /\ Continue(scroll)
  /\ \E y \in 0..MaxHeight :
       scroll' = [scroll EXCEPT !.scrollY = y, !.i = @ + 1]
  /\ ScrollRest

\* the loop condition is false: the function returns
ScrollReturns ==
  /\ scroll.pc = "while"
  /\ ~Continue(scroll)
  /\ scroll' = [scroll EXCEPT !.pc = "done"]
  /\ ScrollRest

\* an await of the loop body rejects (the tab is gone): the function ends
\* by throwing
ScrollThrows ==
  /\ scroll.pc = "while"
  /\ Continue(scroll)
  /\ scroll' = [scroll EXCEPT !.pc = "thrown"]
  /\ ScrollRest

----------------------------------------------------------------------------
(* Specifications *)

\* no process has run, crawl options from S
DriverIdle(S) ==
  /\ crawlTable = <<>>
  /\ FLAGS = [crawlName |-> NoName, resumeIfAble |-> FALSE, url |-> <<>>,
              urlList |-> <<>>, adUrlList |-> <<>>]
  /\ crawlOptions \in S
  /\ crawlListFile = <<>>
  /\ crawlListLength = 0
  /\ CRAWL_ID = 0
  /\ crawlListStartingIndex = 0
  /\ pc = "idle"
  /\ i = 0
  /\ urlTimeout = "none"
  /\ crawlTask = ResetTasks
  /\ raceResult = "none"
  /\ sigint = "none"
  /\ pid = 0
  /\ startTable = <<>>
  /\ resolved = {}
  /\ lastFailed = <<>>
  /\ sigAt = NoSignal
  /\ BROWSER = {}
  /\ seedPage = NoSeedPages

\* a tab on which the handler was just installed
FilterIdle ==
  /\ pageUrl = AboutBlank
  /\ requests = <<>>
  /\ intercepted = <<>>

\* nothing visited, nothing scrolled, no pre-flight check made
RestIdle ==
  /\ pageTable = {}
  /\ requestTable = {}
  /\ visit = NoVisits
  /\ scroll = NoScroll
  /\ preflight = NoPreflight
  /\ diagnostic = NoDiagnostic
  /\ lookup = NoLookup

\* Runs of one named crawl over several processes, seed pages only.
Init ==
  /\ DriverIdle({SeedOnly})
  /\ scrapeOptions = [captureThirdPartyRequests |-> TRUE]
  /\ FilterIdle
  /\ RestIdle

Next ==
  \/ StartProcess(MaxProcs)
  \/ Decide
  \/ Launch
  \/ LoopHead
  \/ NewPageOk
  \/ NewPageThrows
  \/ \E t \in 0..(MaxLen - 1) : TaskStep(t)
  \/ \E t \in 0..(MaxLen - 1) : TaskThrows(t)
  \/ TimerFires
  \/ FinallyUpdate
  \/ Complete
  \/ SigintArrives
  \/ SigintExit

Spec == Init /\ [][Next]_vars

\* One process, every combination of crawl options.
DriverInit ==
  /\ DriverIdle(CrawlOptionSets)
  /\ scrapeOptions = [captureThirdPartyRequests |-> TRUE]
  /\ FilterIdle
  /\ RestIdle

DriverNext ==
  \/ StartProcess(1)
  \/ Decide
  \/ Launch
  \/ LoopHead
  \/ NewPageOk
  \/ NewPageThrows
  \/ \E t \in 0..(MaxLen - 1) : TaskStep(t)
  \/ \E t \in 0..(MaxLen - 1) : TaskThrows(t)
  \/ TimerFires
  \/ FinallyUpdate
  \/ Complete
  \/ SigintArrives
  \/ SigintExit

DriverSpec == DriverInit /\ [][DriverNext]_vars

\* The crawl whose loop is followed statement by statement: a list file of
\* two URLs
TargetListFile == <<"lists", "sites.txt">>
TargetList == <<"https://a.example", "https://b.example">>

\* An unnamed crawl of TargetList at the entry of its main loop, every
\* combination of crawl options, each statement of _crawl a step.
TargetInit ==
  /\ crawlTable = <<[name |-> NoName, completed |-> FALSE,
                     crawl_list |-> TargetListFile,
                     crawl_list_current_index |-> 0,
                     crawl_list_length |-> Len(TargetList),
                     crawler_ip |-> Null]>>
  /\ FLAGS = [crawlName |-> NoName, resumeIfAble |-> FALSE, url |-> <<>>,
              urlList |-> TargetListFile, adUrlList |-> <<>>]
  /\ crawlOptions \in CrawlOptionSets
  /\ crawlListFile = TargetListFile
  /\ crawlListLength = Len(TargetList)
  /\ CRAWL_ID = 1
  /\ crawlListStartingIndex = 0
  /\ pc = "head"
  /\ i = 0
  /\ urlTimeout = "none"
  /\ crawlTask = ResetTasks
  /\ raceResult = "none"
  /\ sigint = "none"
  /\ pid = 1
  /\ startTable = <<>>
  /\ resolved = {}
  /\ lastFailed = <<>>
  /\ sigAt = NoSignal
  /\ BROWSER = {}
  /\ seedPage = NoSeedPages
  /\ scrapeOptions = [captureThirdPartyRequests |-> TRUE]
  /\ FilterIdle
  /\ RestIdle

TargetNext ==
  \/ LoopHead
  \/ NewPageOk
  \/ NewPageThrows
  \/ \E t \in Targets : ArchivePage(t)
  \/ \E t \in Targets : PageLoads(t)
  \/ \E t \in Targets : PageLoadFails(t)
  \/ \E t \in Targets : ClosePage(t)
  \/ \E t \in Targets : OpenPage(t)
  \/ \E t \in Targets : FindSubpage(t)
  \/ TimerFires
  \/ FinallyUpdate
  \/ Complete

TargetSpec == TargetInit /\ [][TargetNext]_vars

\* One process from the call of crawl() on, seed pages only: the pre-flight
\* checks, then the run state machine and the loop.
PreflightNext ==
  \/ StartCrawl
  \/ CheckOutputDir
  \/ ReadCrawlList
  \/ ValidateUrls
  \/ Decide
  \/ Launch
  \/ LoopHead
  \/ NewPageOk
  \/ NewPageThrows
  \/ \E t \in 0..(MaxLen - 1) : TaskStep(t)
  \/ \E t \in 0..(MaxLen - 1) : TaskThrows(t)
  \/ TimerFires
  \/ FinallyUpdate
  \/ Complete

PreflightSpec == Init /\ [][PreflightNext]_vars

\* One process from the call of crawl() to the end of its list, with the
\* call of getPublicIp that createCrawlEntry makes.
EntryNext ==
  \/ StartCrawl
  \/ CheckOutputDir
  \/ ReadCrawlList
  \/ ValidateUrls
  \/ GetPublicIp
  \/ Ipv4Settles
  \/ Ipv6Settles
  \/ InsertCrawlEntry
  \/ Launch
  \/ LoopHead
  \/ NewPageOk
  \/ \E t \in 0..(MaxLen - 1) : TaskStep(t)
  \/ FinallyUpdate
  \/ Complete

EntrySpec == Init /\ [][EntryNext]_vars

\* One call of scrollDownPage on a page of any height; every await of the
\* loop settles, so the loop is never stuck in front of an enabled step.
ScrollInit ==
  /\ DriverIdle({SeedOnly})
  /\ scrapeOptions = [captureThirdPartyRequests |-> FALSE]
  /\ FilterIdle
  /\ RestIdle

ScrollNext ==
  \/ ScrollStarts
  \/ ScrollIterates
  \/ ScrollReturns
  \/ ScrollThrows

ScrollSpec ==
  /\ ScrollInit
  /\ [][ScrollNext]_vars
  /\ WF_vars(ScrollIterates \/ ScrollThrows)
  /\ WF_vars(ScrollReturns)

\* Calls of loadAndHandlePage on tabs of their own, capture enabled or
\* disabled.
PipelineInit ==
  /\ DriverIdle({SeedOnly})
  /\ scrapeOptions \in [captureThirdPartyRequests : BOOLEAN]
  /\ FilterIdle
  /\ RestIdle

PipelineNext ==
  \/ \E c \in Visits : VisitStarts(c)
  \/ \E c \in Visits : StepSucceeds(c)
  \/ \E c \in Visits : StepThrows(c)
  \/ \E c \in Visits : Observes(c)
  \/ \E c \in Visits : Flushes(c)
  \/ \E c \in Visits : Catches(c)

PipelineSpec == PipelineInit /\ [][PipelineNext]_vars

\* The request handler on one tab, capture enabled or disabled.
FilterInit ==
  /\ DriverIdle({SeedOnly})
  /\ scrapeOptions \in [captureThirdPartyRequests : BOOLEAN]
  /\ FilterIdle
  /\ RestIdle

FilterNext ==
  \/ Intercept
  \/ PageNavigates

FilterSpec == FilterInit /\ [][FilterNext]_vars

----------------------------------------------------------------------------
(* Properties of the driver loop and the run record *)

Rows == 1..Len(crawlTable)

\* the targets of run r whose loop iteration has finished
ResolvedOf(r) == {t \in 0..(MaxLen - 1) : <<r, t>> \in resolved}

\* crawl() is past the run state machine and over
Over == pc \in {"done", "thrown", "sigexit"}

\* every target from the starting index on was worked through by this process
AllAttempted ==
  \A t \in crawlListStartingIndex..(crawlListLength - 1) : <<CRAWL_ID, t>> \in resolved

\* C1: a failure while processing one target (opening its tab, navigation,
\* extraction, subpage exploration, the overall timer) never aborts the run:
\* crawl() does not reject, every later target is attempted and the run
\* record ends with completed = true.
C1_FailureIsolation ==
  pc \in {"done", "thrown"} =>
    /\ pc = "done"
    /\ AllAttempted
    /\ crawlTable[CRAWL_ID].completed

\* C2: in every run record current_index never decreases; while completed is
\* false it is the number of targets whose attempt has fully resolved, the
\* value i+1 being written after target i resolves and before target i+1
\* begins (so it is i while target i is worked on); when completed is true it
\* is the list length.
C2_Inv ==
  \A r \in Rows :
    LET row == crawlTable[r] IN
      /\ row.completed => row.crawl_list_current_index = row.crawl_list_length
      /\ ~row.completed =>
           row.crawl_list_current_index = Cardinality(ResolvedOf(r))
      /\ (r = CRAWL_ID /\ pc \in {"newPage", "work", "finally"}) =>
           row.crawl_list_current_index = i

C2_Mono ==
  \A r \in Rows :
    crawlTable'[r].crawl_list_current_index >= crawlTable[r].crawl_list_current_index

C2_RunRecordInvariant == []C2_Inv /\ [][C2_Mono]_vars

\* a resumed process has written progress after a target that failed
C2_Witness ==
  /\ pid >= 2
  /\ CRAWL_ID \in 1..Len(startTable)
  /\ crawlListStartingIndex >= 1
  /\ pc = "head"
  /\ i = crawlListLength
  /\ lastFailed = <<CRAWL_ID, i - 1>>

\* C3: when crawl() is over, the run record has completed = true and
\* current_index = list length exactly when every target from the starting
\* index to the end was attempted and the process did not abort; and no run
\* record is completed while a target of its list has not been attempted.
C3_CompletionEquivalence ==
  /\ Over =>
       LET row == crawlTable[CRAWL_ID] IN
         (row.completed /\ row.crawl_list_current_index = crawlListLength)
           <=> (pc = "done" /\ AllAttempted)
  /\ \A r \in Rows :
       crawlTable[r].completed =>
         \A t \in 0..(crawlTable[r].crawl_list_length - 1) : <<r, t>> \in resolved

\* a resumed process that finished the list and returned
C3_Witness ==
  /\ pc = "done"
  /\ pid >= 2
  /\ crawlListStartingIndex >= 1
  /\ crawlListLength = MaxLen
  /\ crawlTable[CRAWL_ID].completed

\* the list identity createCrawlEntry stores for the current input
CurrentList == IF crawlListFile # <<>> THEN crawlListFile ELSE FLAGS.url

PriorRows ==
  {r \in 1..Len(startTable) : startTable[r].name = FLAGS.crawlName}

Decided == pc \notin {"idle", "decide"}

\* C4: with resume enabled and exactly one incomplete prior run of that name
\* whose list identity and length are those of the current input (whichever
\* input mode produced it), the process reuses that run's identity, inserts
\* no run record and starts at the stored index.
C4_ResumeCorrectness ==
  \A r \in PriorRows :
    ( /\ Decided
      /\ FLAGS.crawlName # NoName
      /\ FLAGS.resumeIfAble
      /\ PriorRows = {r}
      /\ ~startTable[r].completed
      /\ basename(startTable[r].crawl_list) = basename(CurrentList)
      /\ startTable[r].crawl_list_length = crawlListLength )
    => /\ CRAWL_ID = r
       /\ Len(crawlTable) = Len(startTable)
       /\ crawlListStartingIndex = startTable[r].crawl_list_current_index
       /\ pc \in {"newPage", "work", "finally"} => i >= crawlListStartingIndex

\* C5: when a prior run of the given name exists whose list-file basename or
\* list length differs from the current one, or which is completed, the
\* process exits before the browser is launched, inserts no run record and
\* leaves the run records unchanged.
C5_ResumeRejection ==
  ( /\ Decided
    /\ FLAGS.crawlName # NoName
    /\ \E r \in PriorRows :
         \/ basename(startTable[r].crawl_list) # basename(CurrentList)
         \/ startTable[r].crawl_list_length # crawlListLength
         \/ startTable[r].completed )
  => /\ pc = "exit1"
     /\ crawlTable = startTable

\* C6: the run state machine takes exactly one of fresh / resume / reject, and
\* inserts a run record (current_index 0, completed false, starting index 0)
\* only when no name is given or no prior run of that name exists.
C6_FreshRunDecision ==
  Decided =>
    LET fresh == Len(crawlTable) = Len(startTable) + 1
        resume == CRAWL_ID \in 1..Len(startTable)
        reject == pc = "exit1"
    IN /\ Cardinality({o \in {"fresh", "resume", "reject"} :
                         \/ o = "fresh" /\ fresh
                         \/ o = "resume" /\ resume
                         \/ o = "reject" /\ reject}) = 1
       /\ fresh => (FLAGS.crawlName = NoName \/ PriorRows = {})
       /\ (fresh /\ pc = "launch") =>
            /\ crawlTable[CRAWL_ID].crawl_list_current_index = 0
            /\ ~crawlTable[CRAWL_ID].completed
            /\ crawlListStartingIndex = 0

\* C7: a target whose attempt fully resolved (success, failure or timeout) in
\* a run is never attempted again in that run, by the process that resolved
\* it or by a later one resuming the run.
C7_NoRevisit ==
  pc \in {"newPage", "work", "finally"} => <<CRAWL_ID, i>> \notin resolved

\* a later process resumed past a target that an earlier one failed on, and
\* is working on the next one
C7_Witness ==
  /\ pid >= 2
  /\ crawlListStartingIndex >= 1
  /\ pc = "work"
  /\ i = crawlListStartingIndex
  /\ lastFailed = <<CRAWL_ID, i - 1>>

\* C8: when SIGINT arrives while target i is processed, the process exits
\* without the progress write: the stored index after the exit is its value
\* when the signal arrived.
C8_InterruptHandling ==
  (pc = "sigexit" /\ sigAt.processing) =>
    crawlTable[CRAWL_ID].crawl_list_current_index = sigAt.index

----------------------------------------------------------------------------
(* Properties of the request interception filter *)

RECURSIVE PushedUpTo(_)
\* the number of records pushed by the first n handler calls
PushedUpTo(n) == IF n = 0 THEN 0 ELSE PushedUpTo(n - 1) + intercepted[n].pushed

TopLevelNavigation(e) ==
  e.request.isNavigationRequest /\ e.request.frame = MainFrame

\* classifying the request of entry e raises an error: an origin has to be
\* computed and one of the two URLs does not parse
ClassificationError(e) ==
  /\ scrapeOptions.captureThirdPartyRequests
  /\ ~TopLevelNavigation(e)
  /\ (Throws(e.request.url) \/ Throws(e.page))

\* C9: in this order, first match winning: capture disabled, or the top-level
\* navigation request of the main frame, or request origin equal to the
\* tab's current page origin: nothing is buffered; otherwise exactly one
\* record is buffered, with target_url the request's URL and the placeholder
\* parent_page. (A request whose classification raises an error is the case
\* of C10.)
C9_RequestRecordingRule ==
  /\ Len(requests) = PushedUpTo(Len(intercepted))
  /\ \A n \in 1..Len(intercepted) :
       LET e == intercepted[n] IN
         IF ~scrapeOptions.captureThirdPartyRequests \/ TopLevelNavigation(e)
           THEN e.pushed = 0
         ELSE IF ClassificationError(e)
           THEN TRUE
         ELSE IF origin(e.request.url) = origin(e.page)
           THEN e.pushed = 0
         ELSE /\ e.pushed = 1
              /\ requests[PushedUpTo(n)].target_url = e.request.url
              /\ requests[PushedUpTo(n)].parent_page = -1

\* on a tab at https://a.example a same-origin script was left out and a
\* cross-origin script was buffered once
C9_Witness ==
  /\ Len(intercepted) = 2
  /\ intercepted[1].page = PageA
  /\ intercepted[1].request = [url |-> ScriptA, isNavigationRequest |-> FALSE,
                               frame |-> MainFrame]
  /\ intercepted[2].page = PageA
  /\ intercepted[2].request = [url |-> ScriptCdn, isNavigationRequest |-> FALSE,
                               frame |-> MainFrame]
  /\ Len(requests) = 1
  /\ requests[1].target_url = ScriptCdn

\* C10: the handler lets every request proceed, once, on every path (capture
\* disabled, top-level navigation, same origin, recorded cross-origin, error
\* while classifying), and records nothing for a request whose classification
\* raised an error.
C10_InterceptionNeverBlocks ==
  /\ Len(requests) = PushedUpTo(Len(intercepted))
  /\ \A n \in 1..Len(intercepted) :
       LET e == intercepted[n] IN
         /\ e.continues = 1
         /\ ClassificationError(e) => (e.pushed = 0 /\ e.warned)

\* a request that could not be classified went through unrecorded, after a
\* cross-origin request that was recorded
C10_Witness ==
  /\ Len(intercepted) = 2
  /\ intercepted[1].pushed = 1
  /\ ClassificationError(intercepted[2])
  /\ intercepted[2].continues = 1
  /\ Len(requests) = 1

----------------------------------------------------------------------------
(* Properties of the tabs, the visits and the exploration of one target *)

\* C11: every tab opened while a target is processed (seed tab, reload tab,
\* article and ads subpage tabs and their reload tabs) is closed by the time
\* the loop moves on to the next target, also when the pipeline run on the
\* tab fails and when the timer wins the race: no tab of a target before the
\* current one is open.
C11_TabClosure == \A tab \in BROWSER : tab[1] >= i

\* the Page Visit rows of call c
RowsOf(c) == {row \in pageTable : row.id = visit[c].pageId}

Failed(v) == v.failure # NoFailure

\* C12: for every call of the page pipeline the Page Visit row exists from
\* before the navigation on; when a statement from the navigation to the ad
\* extraction (or any other statement of the try block) throws, the row's
\* error field is the message of that failure and the same failure is raised
\* to the caller; the error field is set only on visits whose pipeline
\* failed, and the page id is returned only when nothing failed.
C12_PageVisitLifecycle ==
  \A c \in Visits :
    LET v == visit[c] IN
      /\ v.pc # "idle" =>
           /\ v.pageId # 0
           /\ Cardinality(RowsOf(c)) = 1
      /\ \A row \in RowsOf(c) :
           /\ row.error # Null => (Failed(v) /\ row.error = v.failure.message)
           /\ v.pc = "thrown" =>
                /\ Failed(v)
                /\ row.error = v.failure.message
                /\ v.raised = v.failure
                /\ v.result = 0
           /\ v.pc = "returned" =>
                /\ ~Failed(v)
                /\ row.error = Null
                /\ v.result = v.pageId
                /\ v.raised = NoFailure
      /\ v.result # 0 => v.pc = "returned"
      /\ v.raised # NoFailure => v.pc = "thrown"

\* one call threw the failure of scrollDownPage after its row got that
\* message, the other returned its page id
C12_Witness ==
  \E c, d \in Visits :
    /\ visit[c].pc = "thrown"
    /\ visit[c].raised = [message |-> "scrollDownPage"]
    /\ \E row \in RowsOf(c) : row.error = "scrollDownPage"
    /\ visit[d].pc = "returned"
    /\ visit[d].result = visit[d].pageId
    /\ \E row \in RowsOf(d) : row.error = Null

\* the ads candidates of target t that were visited, by their position in
\* the loop
AdsVisited(t) ==
  {row.id[3] : row \in {r \in pageTable : r.id[1] = t /\ r.id[2] = "ads"}}

\* C15: with N ad-bearing pages requested, the discovery calls of a target
\* come one at a time and number at most N; after the first call that
\* returns no candidate there is no further call (N = 3 and a miss on the
\* 2nd call give 2 calls), the candidates returned before the miss are
\* exactly the ones visited, and the target did not fail.
C15_AdsEarlyStop ==
  /\ [](\A t \in Targets :
          /\ crawlTask[t].calls <= crawlOptions.findAndCrawlPageWithAds
          /\ crawlTask[t].missed =>
               /\ crawlTask[t].phase = "ended"
               /\ crawlTask[t].how = "ok"
               /\ AdsVisited(t) = 0..(crawlTask[t].calls - 2)
               /\ (t = i /\ pc = "finally") => raceResult = "ok")
  /\ [][\A t \in Targets :
          /\ crawlTask'[t].calls <= crawlTask[t].calls + 1
          /\ crawlTask[t].missed => crawlTask'[t].calls <= crawlTask[t].calls]_vars

\* three ad-bearing pages requested, the second call found nothing: two
\* calls, one visit, the target succeeded
C15_Witness ==
  /\ crawlOptions.findAndCrawlPageWithAds = 3
  /\ \E t \in Targets :
       /\ crawlTask[t].missed
       /\ crawlTask[t].calls = 2
       /\ AdsVisited(t) = {0}
       /\ crawlTask[t].how = "ok"

\* the Page Visit rows and the tabs that belong to target t
RowsOfTarget(table, t) == {row \in table : row.id[1] = t}

TabsOfTarget(tabs, t) == {tab \in tabs : tab[1] = t}

\* C16: targets are worked on one at a time: once a later target has
\* started, the branch of an earlier target that lost the race to the timer
\* opens no tab and writes no Page Visit row, new or changed.
C16_OneTargetAtATime ==
  [][\A t \in Targets :
       (t < i /\ pc \in {"newPage", "work", "finally"}) =>
         /\ RowsOfTarget(pageTable', t) \subseteq RowsOfTarget(pageTable, t)
         /\ TabsOfTarget(BROWSER', t) \subseteq TabsOfTarget(BROWSER, t)]_vars

FailedBeforeFlush(v) == Failed(v) /\ v.failure.message # "flush"

\* C18: a Captured Request is persisted only by the flush loop of a call
\* whose earlier statements all succeeded, and only when capture is enabled;
\* it carries the page id of the call on whose tab it was observed, not the
\* placeholder and not the page id of another call; a call that fails before
\* the flush persists none of its buffered requests.
C18_RequestAttribution ==
  /\ \A row \in requestTable :
       LET v == visit[row.tab] IN
         /\ scrapeOptions.captureThirdPartyRequests
         /\ v.pc \in {"flush", "returned", "catch", "thrown"}
         /\ ~FailedBeforeFlush(v)
         /\ row.request.parent_page = v.pageId
         /\ row.request.parent_page # -1
         /\ \A d \in Visits \ {row.tab} : row.request.parent_page # visit[d].pageId
  /\ \A c \in Visits :
       FailedBeforeFlush(visit[c]) => ~(\E row \in requestTable : row.tab = c)

\* one call is in its catch block with a request in its buffer and nothing
\* persisted, the other has persisted a request under its own page id
C18_Witness ==
  \E c, d \in Visits :
    /\ visit[c].pc = "catch"
    /\ FailedBeforeFlush(visit[c])
    /\ Len(visit[c].requests) > 0
    /\ ~(\E row \in requestTable : row.tab = c)
    /\ \E row \in requestTable :
         row.tab = d /\ row.request.parent_page = visit[d].pageId

\* the seed visit of target t with reload counter r returned its page id:
\* its row is there and has no error
SeedVisited(t, r) ==
  \E row \in pageTable : row.id = SeedPageId(t, r) /\ row.error = Null

\* the seed visits of target t that precede the exploration all succeeded
SeedLoaded(t) == SeedVisited(t, 0) /\ (crawlOptions.refreshPage => SeedVisited(t, 1))

\* the seed visit whose page id the exploration of a target passes on
LastSeedVisit(t) == SeedPageId(t, IF crawlOptions.refreshPage THEN 1 ELSE 0)

SubpageRows(t) == {row \in RowsOfTarget(pageTable, t) : row.page_type = "SUBPAGE"}

\* C19: for every target the article discovery and the ads discovery are
\* called, and subpages visited, only after the seed visit (and the reload
\* visit, when reload is enabled) returned; after a failed seed visit there
\* is no discovery call and no subpage visit. Every subpage row has as
\* referrer the page id the seed visit returned and the URL the seed tab
\* resolved to.
C19_SubpageOrderingAndReferrer ==
  \A t \in Targets :
    LET task == crawlTask[t] IN
      /\ (task.phase \in {"article", "ads"} \/ task.articleCalls > 0
            \/ task.calls > 0 \/ SubpageRows(t) # {}) => SeedLoaded(t)
      /\ \A row \in SubpageRows(t) :
           /\ row.referrer_page = LastSeedVisit(t)
           /\ row.referrer_page_url \in ResolvedUrls
           /\ Subpage(task) =>
                /\ row.referrer_page = task.pageId
                /\ row.referrer_page_url = task.seedUrl

\* with reload enabled a subpage was visited after a seed page that
\* redirected: its referrer is the reload visit and the redirected URL
C19_Witness ==
  \E t \in Targets :
    /\ crawlOptions.refreshPage
    /\ crawlTask[t].calls >= 1
    /\ \E row \in SubpageRows(t) :
         /\ row.referrer_page = SeedPageId(t, 1)
         /\ row.referrer_page_url = "redirected"

\* the visit of the article candidate of target t threw
ArticleVisitFailed(t) ==
  \E row \in SubpageRows(t) : row.id[2] = "article" /\ row.error # Null

\* C20: for a target whose seed page loaded and with N > 0 ad-bearing pages
\* requested, the ads exploration is performed whatever the article step
\* came to: article search disabled, no candidate, candidate visited, or the
\* visit of the candidate failing.
C20_ExplorationIndependence ==
  \A t \in Targets :
    ( /\ t = i
      /\ pc = "finally"
      /\ crawlTask[t].phase = "ended"
      /\ SeedLoaded(t)
      /\ crawlOptions.findAndCrawlPageWithAds > 0
      /\ crawlTask[t].how = "ok" \/ ArticleVisitFailed(t) )
    => crawlTask[t].calls >= 1

----------------------------------------------------------------------------
(* Properties of the pre-flight checks *)

ListMode == FLAGS.url = <<>> /\ (FLAGS.urlList # <<>> \/ FLAGS.adUrlList # <<>>)

NoInputMode == FLAGS.url = <<>> /\ FLAGS.urlList = <<>> /\ FLAGS.adUrlList = <<>>

\* a pre-flight check of the started process has to fail
PreflightFails ==
  \/ preflight.outputDir # "writable"
  \/ ListMode /\ preflight.listFile = "missing"
  \/ NoInputMode
  \/ \E k \in 1..Len(preflight.urls) : Throws(preflight.urls[k])

\* C13: when the output directory is missing or unwritable, the list file is
\* missing, no input mode is given or some URL of the list is not a
\* well-formed absolute URL, the process gets no further than its exit: no
\* run record is created, the browser is not launched, no tab is opened and
\* nothing is navigated.
C13_PreflightNoSideEffects ==
  (pc # "idle" /\ PreflightFails) =>
    /\ pc \in {"checkOutputDir", "readList", "validate", "exit1"}
    /\ crawlTable = <<>>
    /\ CRAWL_ID = 0
    /\ BROWSER = {}
    /\ crawlTask = ResetTasks
    /\ pageTable = {}

\* the process exited at the second URL of a readable list, with nothing
\* created
C13_Witness ==
  /\ pc = "exit1"
  /\ preflight.outputDir = "writable"
  /\ preflight.listFile = "present"
  /\ FLAGS.urlList # <<>>
  /\ preflight.urls = <<PageA, InvalidUrl>>
  /\ crawlTable = <<>>

----------------------------------------------------------------------------
(* Properties of scrollDownPage *)

ScrollEnded == scroll.pc \in {"done", "thrown"}

\* C14: scrollDownPage ends on every page, it makes at most 30 iterations
\* even when scroll position plus viewport height never reaches the content
\* height, and it makes no iteration once scroll position plus viewport
\* height has reached the content height.
C14_ScrollBound ==
  /\ [](scroll.i <= 30)
  /\ [][scroll'.i > scroll.i =>
          scroll.scrollY + scroll.innerHeight < scroll.scrollHeight]_vars
  /\ [][(scroll.pc = "while"
          /\ scroll.scrollY + scroll.innerHeight >= scroll.scrollHeight) =>
          (scroll'.pc = "done" /\ scroll'.i = scroll.i)]_vars
  /\ (scroll.pc = "while") ~> ScrollEnded

\* the loop gave up after 30 iterations on a page whose bottom was not reached
C14_Witness ==
  /\ scroll.pc = "done"
  /\ scroll.i = 30
  /\ scroll.scrollY + scroll.innerHeight < scroll.scrollHeight

----------------------------------------------------------------------------
(* Properties of getPublicIp and of the validation diagnostic *)

\* null or undefined
Absent(v) == v \in {Null, Undefined}

\* C21: getPublicIp returns for every combination of lookup outcomes: the
\* IPv4 address when the IPv4 lookup yields one; otherwise it calls the IPv6
\* lookup and returns its address, or an absent value when that yields none
\* either.
C21_PublicIpResolution ==
  lookup.pc = "returned" =>
    /\ Truthy(lookup.v4) => (lookup.result = lookup.v4 /\ ~lookup.calledIpv6)
    /\ ~Truthy(lookup.v4) =>
         /\ lookup.calledIpv6
         /\ Truthy(lookup.v6) => lookup.result = lookup.v6
         /\ ~Truthy(lookup.v6) => Absent(lookup.result)

\* the 1-based position of the first URL of the list that new URL() rejects
FirstInvalid(urls) ==
  CHOOSE k \in 1..Len(urls) :
    Throws(urls[k]) /\ \A j \in 1..(k - 1) : ~Throws(urls[j])

\* C22: the URLs are validated in list order and the process exits at the
\* first invalid one; the error it logs names the list file, that URL and
\* its line number, which is its 1-based position in the list, wherever in
\* the list the first invalid URL is.
C22_ValidationDiagnostic ==
  (pc = "exit1" /\ diagnostic # NoDiagnostic) =>
    /\ diagnostic.file = crawlListFile
    /\ diagnostic.url = preflight.urls[FirstInvalid(preflight.urls)]
    /\ diagnostic.line = FirstInvalid(preflight.urls)

====
